---- MODULE Spec2Model ----
(***************************************************************************)
(* A model of the lifo memory pool: a Treiber stack of free Nodes          *)
(* (src/src/lib.rs), with its generic (AtomicPtr compare-exchange) and     *)
(* arch (LDREX/STREX) backends, the Init/Uninit Box handles, and Pool::grow *)
(* carving a byte region into aligned Nodes.  Concurrency is single-core   *)
(* preemption: a stack of execution contexts, of which only the top runs.  *)
(***************************************************************************)
EXTENDS Integers, Sequences, FiniteSets, TLC

\* ------------------------------------------------------------------ bounds
MaxDepth == 2        \* nested handler contexts above the main context
MaxLen == 31         \* longest region handed to grow in the growth specification
MaxFrees == 1        \* free calls per behaviour in the growth specification
MaxCalls == 6        \* calls per behaviour in the specification of the generic backend
MaxPreempts == 2     \* exceptions taken per behaviour in the fair specification
MaxSpurious == 1     \* spurious swap failures per behaviour in the fair specification
MaxFails == 3        \* failed swap attempts of one call that are told apart

\* ------------------------------------------------------------- the target
NULL == 0            \* ptr::null_mut()
PtrSize == 4         \* the arch backend casts head to *const u32
DataSize == 1        \* T of the tests: one byte
Base == 4            \* lowest address of a static buffer

Layouts == {"struct", "union"}

Max(a, b) == IF a >= b THEN a ELSE b

RoundUp(n, a) == ((n + a - 1) \div a) * a

\* mem::align_of::<Node<T>>()
NodeAlign == PtrSize

\* mutant: the union feature does not overlap the two fields
NodeSizeNoOverlap(l) == RoundUp(DataSize, NodeAlign) + PtrSize

\* mem::size_of::<Node<T>>(): two fields, or one overlapping storage
NodeSize(l) ==
    IF l = "union"
    THEN RoundUp(Max(DataSize, PtrSize), NodeAlign)
    ELSE RoundUp(DataSize, NodeAlign) + PtrSize

\* the buffers of the pool specifications: room for two Nodes behind
\* alignment padding, and room for exactly one aligned Node
FirstBuf(l) == [p |-> Base + 1, len |-> 2 * NodeSize(l) + (NodeAlign - 1)]

SecondBuf(l) == [p |-> Base + NodeAlign + 2 * NodeSize(l), len |-> NodeSize(l)]

PoolBufs(l) == { FirstBuf(l), SecondBuf(l) }

MemTop == Base + (NodeAlign - 1) + Max(MaxLen, 3 * (RoundUp(DataSize, NodeAlign) + PtrSize))

\* every address a Node can start at
Slots == { a \in Base..MemTop : a % NodeAlign = 0 }

Ptr == Slots \cup {NULL}

\* values of T; in the union layout they share their bytes with the link
Values == { Base + NodeAlign, Base + 2 * NodeAlign }

\* the value the handlers of the preemptive specifications store
OneValue == { Base + NodeAlign }

VARIABLES
    layout,      \* which Node representation the build uses
    meter,       \* exceptions and spurious swap failures still allowed (-1: any
                 \* number), whether failed swap attempts are counted, and
                 \* whether the swaps a preempted call missed are recorded
    bufs,        \* the program's static buffers
    grown,       \* the buffers already handed to grow
    head,        \* Pool.head
    next,        \* Node.next of every slot (the whole cell in the union layout)
    data,        \* Node.data of every slot (struct layout)
    live,        \* slots whose value slot holds a constructed, not yet dropped T
    handles,     \* live Box handles: slot -> [Uninit: count, Init: count]
    ctx,         \* stack of execution contexts; the last one runs
    monitor,     \* local exclusive monitor: "Open" or "Exclusive"
    abs,         \* the sequential stack, updated at each successful swap
    registered,  \* slots grow has pushed
    leaked,      \* slots whose Box was dropped or forgotten without free
    fate,        \* how each such Box ended: [node, st, how]
    calls,       \* calls the behaviour may still start (-1: any number)
    frees,       \* free calls the behaviour may still start (-1: any number)
    ev,          \* the call the last step completed, if any
    scen         \* progress of the alloc, alloc, free, free, alloc, alloc scenario

vars == << layout, meter, bufs, grown, head, next, data, live, handles, ctx, monitor, abs,
           registered, leaked, fate, calls, frees, ev, scen >>

\* ---------------------------------------------------------------- frames
\* pre: an exception was taken since the call read head; fails: the failed
\* swap attempts of the call (counted in the main context); moved: where
\* the call was when another context first swapped head since the call read it
Idle ==
    [ pc |-> "idle", op |-> "none", head |-> NULL, next |-> NULL, node |-> NULL,
      st |-> "-", gp |-> 0, glen |-> 0, dtors |-> 0, pre |-> FALSE, fails |-> 0,
      moved |-> "-" ]

NoEv ==
    [ op |-> "none", node |-> NULL, st |-> "-", dtors |-> 0, val |-> NULL,
      moved |-> "-" ]

Top == ctx[Len(ctx)]

SetTop(f) == [ctx EXCEPT ![Len(ctx)] = f]

NoHandles == [s \in Slots |-> [Uninit |-> 0, Init |-> 0]]

HandleCount(s) == handles[s].Uninit + handles[s].Init

\* one call taken from a budget
Spend(c) == IF c > 0 THEN c - 1 ELSE c

Unmetered == [preempt |-> -1, spurious |-> -1, count |-> FALSE, track |-> FALSE]

\* the program points between a call's read of head and its swap
AfterRead == {"pop_next", "pop_cas", "pop_strex", "push_write", "push_cas", "push_strex"}

\* the frame of a call whose swap attempt has just failed
Failed(f) ==
    [f EXCEPT !.pre = FALSE, !.moved = "-",
              !.fails = IF meter.count /\ Len(ctx) = 1 /\ @ <= MaxFails THEN @ + 1 ELSE @]

\* the contexts after a swap of head by the running one: the preempted calls
\* that have read head have missed it
Seen(c) ==
    IF meter.track
    THEN [ i \in 1..Len(c) |->
             IF i < Len(c) /\ c[i].pc \in AfterRead
             THEN [c[i] EXCEPT !.moved = IF @ = "-" THEN c[i].pc ELSE @] ELSE c[i] ]
    ELSE c

Owned == { s \in Slots : HandleCount(s) > 0 }

AddHandle(s, st) == [handles EXCEPT ![s][st] = @ + 1]

DelHandle(s, st) == [handles EXCEPT ![s][st] = @ - 1]

\* ------------------------------------------------------------ the free list
RECURSIVE ChainFrom(_, _)
ChainFrom(p, fuel) ==
    IF p = NULL \/ fuel = 0 THEN << >>
    ELSE << p >> \o ChainFrom(next[p], fuel - 1)

\* the Nodes met by following next from head (cut after one lap of a cycle)
Chain == ChainFrom(head, Cardinality(Slots) + 1)

FreeNodes == { Chain[i] : i \in 1..Len(Chain) }

NoRepeat(s) == \A i, j \in 1..Len(s) : i # j => s[i] # s[j]

\* ------------------------------------------------------------ Node storage
ReadData(s) == IF layout = "union" THEN next[s] ELSE data[s]

\* ptr::write(node.data.get(), val)
WriteData(s, v) ==
    IF layout = "union"
    THEN next' = [next EXCEPT ![s] = v] /\ UNCHANGED data
    ELSE data' = [data EXCEPT ![s] = v] /\ UNCHANGED next

\* new_head.as_mut().next = head
WriteNext(s, v) == next' = [next EXCEPT ![s] = v] /\ UNCHANGED data

\* --------------------------------------------------------- pure helpers
\* mutant: p is rounded down to the alignment instead of up
GrowAlignRoundsDown(p, len) ==
    LET rem == p % NodeAlign IN
    IF rem # 0
    THEN LET offset == NodeAlign - rem IN
         IF offset >= len
         THEN [ret |-> TRUE, p |-> p, len |-> len]
         ELSE [ret |-> FALSE, p |-> p - rem, len |-> len - offset]
    ELSE [ret |-> FALSE, p |-> p, len |-> len]

\* mutant: the alignment offset is added to p but not taken off len
GrowAlignKeepsLen(p, len) ==
    LET rem == p % NodeAlign IN
    IF rem # 0
    THEN LET offset == NodeAlign - rem IN
         IF offset >= len
         THEN [ret |-> TRUE, p |-> p, len |-> len]
         ELSE [ret |-> FALSE, p |-> p + offset, len |-> len]
    ELSE [ret |-> FALSE, p |-> p, len |-> len]

\* Pool::grow before its loop: the alignment offset, or the early return
GrowAlign(p, len) ==
    LET rem == p % NodeAlign IN
    IF rem # 0
    THEN LET offset == NodeAlign - rem IN
         IF offset >= len
         THEN [ret |-> TRUE, p |-> p, len |-> len]
         ELSE [ret |-> FALSE, p |-> p + offset, len |-> len - offset]
    ELSE [ret |-> FALSE, p |-> p, len |-> len]

Without(q, n) == LET keep(x) == x # n IN SelectSeq(q, keep)

\* the Nodes pushed and not popped since, most recently pushed first
AbsPush(n) == << n >> \o Without(abs, n)

AbsPop(n) == Without(abs, n)

\* the scenario of the LIFO property: alloc -> a, alloc -> b, free b, free a,
\* alloc -> x, alloc -> y, with only init calls in between
NoScen == [ph |-> 0, a |-> NULL, b |-> NULL, x |-> NULL, y |-> NULL]

ScenOff == [NoScen EXCEPT !.ph = -1]

ScenNext(e) ==
    LET got == e.op = "alloc" /\ e.node # NULL
        restart == IF got THEN [NoScen EXCEPT !.ph = 1, !.a = e.node] ELSE NoScen
    IN
    IF scen.ph = -1 \/ e.op \in {"none", "init"} THEN scen
    ELSE IF scen.ph = 1 /\ got THEN [scen EXCEPT !.ph = 2, !.b = e.node]
    ELSE IF scen.ph = 2 /\ got THEN [scen EXCEPT !.a = scen.b, !.b = e.node]
    ELSE IF scen.ph = 2 /\ e.op = "free" /\ e.node = scen.b THEN [scen EXCEPT !.ph = 3]
    ELSE IF scen.ph = 3 /\ e.op = "free" /\ e.node = scen.a THEN [scen EXCEPT !.ph = 4]
    ELSE IF scen.ph = 4 /\ got THEN [scen EXCEPT !.ph = 5, !.x = e.node]
    ELSE IF scen.ph = 5 /\ got THEN [scen EXCEPT !.ph = 6, !.y = e.node]
    ELSE restart

\* the step completes a call with outcome e
Emit(e) == ev' = e /\ scen' = ScenNext(e)

\* mutant: the grow loop shortens len but does not advance p
PushDoneRepeats(f) ==
    IF f.op \in {"free", "drop"}
    THEN [ frame |-> Idle,
           ev |-> [NoEv EXCEPT !.op = f.op, !.node = f.node, !.st = f.st,
                               !.dtors = f.dtors, !.moved = f.moved] ]
    ELSE LET len == f.glen - NodeSize(layout) IN
         IF len >= NodeSize(layout)
         THEN [ frame |-> [f EXCEPT !.pc = "push", !.glen = len, !.head = NULL,
                                    !.pre = FALSE, !.moved = "-"],
                ev |-> NoEv ]
         ELSE [ frame |-> Idle, ev |-> [NoEv EXCEPT !.op = "grow"] ]

\* what the caller of a finished push does next: free and the singleton
\* Box's drop return, grow loops
PushDone(f) ==
    IF f.op \in {"free", "drop"}
    THEN [ frame |-> Idle,
           ev |-> [NoEv EXCEPT !.op = f.op, !.node = f.node, !.st = f.st,
                               !.dtors = f.dtors, !.moved = f.moved] ]
    ELSE LET p == f.gp + NodeSize(layout)
             len == f.glen - NodeSize(layout) IN
         IF len >= NodeSize(layout)
         THEN [ frame |-> [f EXCEPT !.pc = "push", !.node = p, !.gp = p,
                                    !.glen = len, !.head = NULL, !.pre = FALSE,
                                    !.moved = "-"],
                ev |-> NoEv ]
         ELSE [ frame |-> Idle, ev |-> [NoEv EXCEPT !.op = "grow"] ]

\* pop returned `r` (NULL for None): alloc wraps a Node in an Uninit Box; a
\* Node is returned after a swap of head
AllocReturn(r) ==
    /\ ctx' = IF r = NULL THEN SetTop(Idle) ELSE Seen(SetTop(Idle))
    /\ handles' = IF r = NULL THEN handles ELSE AddHandle(r, "Uninit")
    /\ Emit([NoEv EXCEPT !.op = "alloc", !.node = r])

\* a successful swap of head by push
PushSwapped ==
    /\ head' = Top.node
    /\ abs' = AbsPush(Top.node)
    /\ registered' = IF Top.op = "grow" THEN registered \cup {Top.node} ELSE registered
    /\ ctx' = Seen(SetTop(PushDone(Top).frame))
    /\ Emit(PushDone(Top).ev)

\* mutant: the swap stores the observed head instead of its next
PopSwappedKeepsHead ==
    /\ head' = Top.head
    /\ abs' = AbsPop(Top.head)
    /\ AllocReturn(Top.head)

\* mutant: pop returns the new head instead of the Node it unlinked
PopSwappedReturnsNext ==
    /\ head' = Top.next
    /\ abs' = AbsPop(Top.next)
    /\ AllocReturn(Top.next)

\* a successful swap of head by pop
PopSwapped ==
    /\ head' = Top.next
    /\ abs' = AbsPop(Top.head)
    /\ AllocReturn(Top.head)

\* ------------------------------------------------------------- the calls
\* Pool::alloc: enters pop
alloc ==
    /\ Top.pc = "idle"
    /\ calls # 0
    /\ calls' = Spend(calls)
    /\ ctx' = SetTop([Idle EXCEPT !.pc = "pop", !.op = "alloc"])
    /\ Emit(NoEv)
    /\ UNCHANGED << layout, meter, bufs, grown, head, next, data, live, handles, monitor, abs,
                    registered, leaked, fate, frees >>

\* mutant: free pushes the Node back without running the destructor
free_nodrop(s, st) ==
    /\ Top.pc = "idle"
    /\ handles[s][st] > 0
    /\ calls # 0 /\ frees # 0
    /\ calls' = Spend(calls)
    /\ frees' = Spend(frees)
    /\ handles' = DelHandle(s, st)
    /\ live' = live
    /\ ctx' = SetTop([Idle EXCEPT !.pc = "push", !.op = "free", !.node = s, !.st = st])
    /\ Emit(NoEv)
    /\ UNCHANGED << layout, meter, bufs, grown, head, next, data, monitor, abs, registered, leaked, fate >>

\* Pool::free: consumes the Box, runs T's destructor iff S = Init, enters push
free(s, st) ==
    /\ Top.pc = "idle"
    /\ handles[s][st] > 0
    /\ calls # 0 /\ frees # 0
    /\ calls' = Spend(calls)
    /\ frees' = Spend(frees)
    /\ handles' = DelHandle(s, st)
    /\ live' = IF st = "Init" THEN live \ {s} ELSE live
    /\ ctx' = SetTop([Idle EXCEPT !.pc = "push", !.op = "free", !.node = s, !.st = st,
                                  !.dtors = IF st = "Init" THEN 1 ELSE 0])
    /\ Emit(NoEv)
    /\ UNCHANGED << layout, meter, bufs, grown, head, next, data, monitor, abs, registered, leaked, fate >>

CallFree == \E s \in Slots, st \in {"Uninit", "Init"} : free(s, st)

\* mutant: grow pushes a Node as soon as one byte is left after alignment
grow_partial(b) ==
    /\ Top.pc = "idle"
    /\ b \in bufs \ grown
    /\ calls # 0
    /\ calls' = Spend(calls)
    /\ grown' = grown \cup {b}
    /\ LET g == GrowAlign(b.p, b.len) IN
       IF ~g.ret /\ g.len >= 1
       THEN /\ ctx' = SetTop([Idle EXCEPT !.pc = "push", !.op = "grow", !.node = g.p,
                                          !.gp = g.p, !.glen = g.len])
            /\ Emit(NoEv)
       ELSE /\ ctx' = SetTop(Idle)
            /\ Emit([NoEv EXCEPT !.op = "grow"])
    /\ UNCHANGED << layout, meter, bufs, head, next, data, live, handles, monitor, abs,
                    registered, leaked, fate, frees >>

\* Pool::grow: takes the buffer, aligns, and enters its first push (if any)
grow(b) ==
    /\ Top.pc = "idle"
    /\ b \in bufs \ grown
    /\ calls # 0
    /\ calls' = Spend(calls)
    /\ grown' = grown \cup {b}
    /\ LET g == GrowAlign(b.p, b.len) IN
       IF ~g.ret /\ g.len >= NodeSize(layout)
       THEN /\ ctx' = SetTop([Idle EXCEPT !.pc = "push", !.op = "grow", !.node = g.p,
                                          !.gp = g.p, !.glen = g.len])
            /\ Emit(NoEv)
       ELSE /\ ctx' = SetTop(Idle)
            /\ Emit([NoEv EXCEPT !.op = "grow"])
    /\ UNCHANGED << layout, meter, bufs, head, next, data, live, handles, monitor, abs,
                    registered, leaked, fate, frees >>

CallGrow == \E b \in bufs : grow(b)

\* mutant: init hands out the Init handle without writing the value
init_nowrite(s, v) ==
    /\ Top.pc = "idle"
    /\ handles[s].Uninit > 0
    /\ calls # 0
    /\ calls' = Spend(calls)
    /\ handles' = [handles EXCEPT ![s].Uninit = @ - 1, ![s].Init = @ + 1]
    /\ live' = live \cup {s}
    /\ Emit([NoEv EXCEPT !.op = "init", !.node = s, !.st = "Init", !.val = v])
    /\ UNCHANGED << layout, meter, bufs, grown, head, next, data, ctx, monitor, abs,
                    registered, leaked, fate, frees >>

\* Box<T, Uninit>::init
init(s, v) ==
    /\ Top.pc = "idle"
    /\ handles[s].Uninit > 0
    /\ calls # 0
    /\ calls' = Spend(calls)
    /\ WriteData(s, v)
    /\ handles' = [handles EXCEPT ![s].Uninit = @ - 1, ![s].Init = @ + 1]
    /\ live' = live \cup {s}
    /\ Emit([NoEv EXCEPT !.op = "init", !.node = s, !.st = "Init", !.val = v])
    /\ UNCHANGED << layout, meter, bufs, grown, head, ctx, monitor, abs, registered, leaked, fate, frees >>

CallInit == \E s \in Slots, v \in Values : init(s, v)

CallInitOne == \E s \in Slots, v \in OneValue : init(s, v)

\* an assignment through DerefMut of an Init Box: *x = v
write(s, v) ==
    /\ Top.pc = "idle"
    /\ handles[s].Init > 0
    /\ WriteData(s, v)
    /\ Emit([NoEv EXCEPT !.op = "write", !.node = s, !.st = "Init", !.val = v])
    /\ UNCHANGED << layout, meter, bufs, grown, head, live, handles, ctx, monitor, abs,
                    registered, leaked, fate, calls, frees >>

CallWrite == \E s \in Slots, v \in Values : write(s, v)

\* mutant: dropping a Box releases it as Pool::free does
drop_release(s, st) ==
    /\ Top.pc = "idle"
    /\ handles[s][st] > 0
    /\ handles' = DelHandle(s, st)
    /\ live' = IF st = "Init" THEN live \ {s} ELSE live
    /\ leaked' = leaked \cup {s}
    /\ fate' = fate \cup {[node |-> s, st |-> st, how |-> "drop"]}
    /\ ctx' = SetTop([Idle EXCEPT !.pc = "push", !.op = "free", !.node = s, !.st = st,
                                  !.dtors = IF st = "Init" THEN 1 ELSE 0])
    /\ Emit(NoEv)
    /\ UNCHANGED << layout, meter, bufs, grown, head, next, data, monitor, abs,
                    registered, calls, frees >>

\* a Box of lib.rs goes out of scope or is forgotten: Box has no Drop impl,
\* so nothing runs and the Node is not pushed back
drop(s, st) ==
    /\ Top.pc = "idle"
    /\ handles[s][st] > 0
    /\ handles' = DelHandle(s, st)
    /\ leaked' = leaked \cup {s}
    /\ fate' = fate \cup {[node |-> s, st |-> st, how |-> "drop"]}
    /\ Emit([NoEv EXCEPT !.op = "drop", !.node = s, !.st = st])
    /\ UNCHANGED << layout, meter, bufs, grown, head, next, data, live, ctx, monitor, abs,
                    registered, calls, frees >>

CallDrop == \E s \in Slots, st \in {"Uninit", "Init"} : drop(s, st)

\* mutant: forgetting a Box still runs the destructor of its value
forget_destroys(s, st) ==
    /\ Top.pc = "idle"
    /\ handles[s][st] > 0
    /\ handles' = DelHandle(s, st)
    /\ live' = live \ {s}
    /\ leaked' = leaked \cup {s}
    /\ fate' = fate \cup {[node |-> s, st |-> st, how |-> "forget"]}
    /\ Emit([NoEv EXCEPT !.op = "forget", !.node = s, !.st = st])
    /\ UNCHANGED << layout, meter, bufs, grown, head, next, data, ctx, monitor, abs,
                    registered, calls, frees >>

\* mem::forget(box): the handle is gone, no destructor runs, nothing is pushed
forget(s, st) ==
    /\ Top.pc = "idle"
    /\ handles[s][st] > 0
    /\ handles' = DelHandle(s, st)
    /\ leaked' = leaked \cup {s}
    /\ fate' = fate \cup {[node |-> s, st |-> st, how |-> "forget"]}
    /\ Emit([NoEv EXCEPT !.op = "forget", !.node = s, !.st = st])
    /\ UNCHANGED << layout, meter, bufs, grown, head, next, data, live, ctx, monitor, abs,
                    registered, calls, frees >>

CallForget == \E s \in Slots, st \in {"Uninit", "Init"} : forget(s, st)

\* ------------------------------------------------------ the singleton Box
\* mutant: init without mem::forget(self): the Uninit handle is dropped at
\* the end of init, which pushes the Node of the Init handle it returns
init_singleton_drops(s, v) ==
    /\ Top.pc = "idle"
    /\ handles[s].Uninit > 0
    /\ calls # 0
    /\ calls' = Spend(calls)
    /\ WriteData(s, v)
    /\ handles' = [handles EXCEPT ![s].Uninit = @ - 1, ![s].Init = @ + 1]
    /\ live' = live \cup {s}
    /\ ctx' = SetTop([Idle EXCEPT !.pc = "push", !.op = "drop", !.node = s,
                                  !.st = "Uninit"])
    /\ Emit([NoEv EXCEPT !.op = "init", !.node = s, !.st = "Init", !.val = v])
    /\ UNCHANGED << layout, meter, bufs, grown, head, monitor, abs, registered, leaked,
                    fate, frees >>

\* singleton Box<P, Uninit>::init: mem::forget(self), so that the Uninit
\* handle's Drop does not run, then ptr::write and the Init handle
init_singleton(s, v) ==
    /\ Top.pc = "idle"
    /\ handles[s].Uninit > 0
    /\ calls # 0
    /\ calls' = Spend(calls)
    /\ WriteData(s, v)
    /\ handles' = [handles EXCEPT ![s].Uninit = @ - 1, ![s].Init = @ + 1]
    /\ live' = live \cup {s}
    /\ Emit([NoEv EXCEPT !.op = "init", !.node = s, !.st = "Init", !.val = v])
    /\ UNCHANGED << layout, meter, bufs, grown, head, ctx, monitor, abs, registered, leaked,
                    fate, frees >>

CallInitSingleton == \E s \in Slots, v \in Values : init_singleton(s, v)

\* mutant: Drop pushes the Node back without running the destructor
drop_singleton_nodtor(s, st) ==
    /\ Top.pc = "idle"
    /\ handles[s][st] > 0
    /\ handles' = DelHandle(s, st)
    /\ ctx' = SetTop([Idle EXCEPT !.pc = "push", !.op = "drop", !.node = s, !.st = st])
    /\ Emit(NoEv)
    /\ UNCHANGED << layout, meter, bufs, grown, head, next, data, live, monitor, abs, registered,
                    leaked, fate, calls, frees >>

\* mutant: Drop releases the Node of an Init handle only
drop_singleton_init_only(s, st) ==
    /\ Top.pc = "idle"
    /\ handles[s][st] > 0
    /\ handles' = DelHandle(s, st)
    /\ live' = live \ {s}
    /\ IF st = "Init"
       THEN /\ ctx' = SetTop([Idle EXCEPT !.pc = "push", !.op = "drop", !.node = s,
                                          !.st = st, !.dtors = 1])
            /\ Emit(NoEv)
       ELSE /\ ctx' = SetTop(Idle)
            /\ Emit([NoEv EXCEPT !.op = "drop", !.node = s, !.st = st])
    /\ UNCHANGED << layout, meter, bufs, grown, head, next, data, monitor, abs, registered,
                    leaked, fate, calls, frees >>

\* Drop for the singleton Box<P, S>: drop_in_place iff S = Init, then
\* P::ptr().push(node)
drop_singleton(s, st) ==
    /\ Top.pc = "idle"
    /\ handles[s][st] > 0
    /\ handles' = DelHandle(s, st)
    /\ live' = IF st = "Init" THEN live \ {s} ELSE live
    /\ ctx' = SetTop([Idle EXCEPT !.pc = "push", !.op = "drop", !.node = s, !.st = st,
                                  !.dtors = IF st = "Init" THEN 1 ELSE 0])
    /\ Emit(NoEv)
    /\ UNCHANGED << layout, meter, bufs, grown, head, next, data, monitor, abs, registered,
                    leaked, fate, calls, frees >>

CallDropSingleton == \E s \in Slots, st \in {"Uninit", "Init"} : drop_singleton(s, st)

\* --------------------------------------------------------- preemption
\* an exception is taken: a handler context starts; exception entry clears
\* the local exclusive monitor
Preempt ==
    /\ Len(ctx) <= MaxDepth
    /\ meter.preempt # 0
    /\ meter' = [meter EXCEPT !.preempt = Spend(@)]
    /\ ctx' = Append(SetTop([Top EXCEPT !.pre = @ \/ Top.pc \in AfterRead]), Idle)
    /\ monitor' = "Open"
    /\ Emit(NoEv)
    /\ UNCHANGED << layout, bufs, grown, head, next, data, live, handles, abs,
                    registered, leaked, fate, calls, frees >>

\* an exception taken while the running context is not inside a pop
PreemptPush == Top.op # "alloc" /\ Preempt

\* the handler has finished its calls and returns to the preempted context
Return ==
    /\ Len(ctx) > 1
    /\ Top.pc = "idle"
    /\ ctx' = SubSeq(ctx, 1, Len(ctx) - 1)
    /\ monitor' = "Open"
    /\ Emit(NoEv)
    /\ UNCHANGED << layout, meter, bufs, grown, head, next, data, live, handles, abs,
                    registered, leaked, fate, calls, frees >>

\* ------------------------------------------------- generic backend: pop
\* let mut head = self.head.load(..); None when it is null
pop_load ==
    /\ Top.pc = "pop"
    /\ IF head = NULL
       THEN AllocReturn(NULL)
       ELSE /\ ctx' = SetTop([Top EXCEPT !.pc = "pop_next", !.head = head])
            /\ Emit(NoEv)
            /\ UNCHANGED handles
    /\ UNCHANGED << layout, meter, bufs, grown, head, next, data, live, monitor, abs,
                    registered, leaked, fate, calls, frees >>

\* let next = (*head).next
pop_next ==
    /\ Top.pc = "pop_next"
    /\ ctx' = SetTop([Top EXCEPT !.pc = "pop_cas", !.next = next[Top.head]])
    /\ Emit(NoEv)
    /\ UNCHANGED << layout, meter, bufs, grown, head, next, data, live, handles, monitor, abs,
                    registered, leaked, fate, calls, frees >>

\* mutant: the failed compare-exchange's new head is ignored, the loop
\* retries with the head it had
pop_cas_err_stale ==
    /\ ctx' = SetTop([Failed(Top) EXCEPT !.pc = "pop_next", !.next = NULL])
    /\ Emit(NoEv)
    /\ UNCHANGED << head, abs, handles >>

\* compare_exchange_weak(head, next) failed: head = new_head, loop
pop_cas_err ==
    /\ IF head = NULL
       THEN AllocReturn(NULL)
       ELSE /\ ctx' = SetTop([Failed(Top) EXCEPT !.pc = "pop_next", !.head = head,
                                                 !.next = NULL])
            /\ Emit(NoEv)
            /\ UNCHANGED handles
    /\ UNCHANGED << head, abs >>

\* mutant: the swap also requires the head Node's link to be the one read
pop_cas_checked ==
    /\ Top.pc = "pop_cas"
    /\ \/ head = Top.head /\ next[head] = Top.next /\ PopSwapped /\ UNCHANGED meter
       \/ pop_cas_err /\ UNCHANGED meter
    /\ UNCHANGED << layout, bufs, grown, next, data, live, monitor, registered, leaked, fate,
                    calls, frees >>

\* self.head.compare_exchange_weak(head, next, ..): swaps when head still has
\* the observed value; may also fail spuriously
pop_cas ==
    /\ Top.pc = "pop_cas"
    /\ \/ head = Top.head /\ PopSwapped /\ UNCHANGED meter
       \/ head # Top.head /\ pop_cas_err /\ UNCHANGED meter
       \/ /\ head = Top.head /\ meter.spurious # 0
          /\ pop_cas_err
          /\ meter' = [meter EXCEPT !.spurious = Spend(@)]
    /\ UNCHANGED << layout, bufs, grown, next, data, live, monitor, registered, leaked, fate,
                    calls, frees >>

\* ------------------------------------------------ generic backend: push
\* let mut head = self.head.load(..)
push_load ==
    /\ Top.pc = "push"
    /\ ctx' = SetTop([Top EXCEPT !.pc = "push_write", !.head = head])
    /\ Emit(NoEv)
    /\ UNCHANGED << layout, meter, bufs, grown, head, next, data, live, handles, monitor, abs,
                    registered, leaked, fate, calls, frees >>

\* new_head.as_mut().next = head
push_write ==
    /\ Top.pc = "push_write"
    /\ WriteNext(Top.node, Top.head)
    /\ ctx' = SetTop([Top EXCEPT !.pc = "push_cas"])
    /\ Emit(NoEv)
    /\ UNCHANGED << layout, meter, bufs, grown, head, live, handles, monitor, abs,
                    registered, leaked, fate, calls, frees >>

\* mutant: after a failed compare-exchange the loop retries the swap with
\* the new head without writing it to the Node's link again
push_cas_norewrite ==
    /\ Top.pc = "push_cas"
    /\ \/ head = Top.head /\ PushSwapped /\ UNCHANGED meter
       \/ /\ head # Top.head \/ meter.spurious # 0
          /\ meter' = IF head # Top.head THEN meter
                      ELSE [meter EXCEPT !.spurious = Spend(@)]
          /\ ctx' = SetTop([Failed(Top) EXCEPT !.pc = "push_cas", !.head = head])
          /\ Emit(NoEv)
          /\ UNCHANGED << head, abs, registered >>
    /\ UNCHANGED << layout, bufs, grown, next, data, live, handles, monitor, leaked, fate, calls, frees >>

\* self.head.compare_exchange_weak(head, new_head, ..)
push_cas ==
    /\ Top.pc = "push_cas"
    /\ \/ head = Top.head /\ PushSwapped /\ UNCHANGED meter
       \/ /\ head # Top.head \/ meter.spurious # 0
          /\ meter' = IF head # Top.head THEN meter
                      ELSE [meter EXCEPT !.spurious = Spend(@)]
          /\ ctx' = SetTop([Failed(Top) EXCEPT !.pc = "push_write", !.head = head])
          /\ Emit(NoEv)
          /\ UNCHANGED << head, abs, registered >>
    /\ UNCHANGED << layout, bufs, grown, next, data, live, handles, monitor, leaked, fate, calls, frees >>

\* --------------------------------------------------- arch backend: pop
\* let head = arch::ldrex(self.head.get())        State: Exclusive
pop_ldrex ==
    /\ Top.pc = "pop"
    /\ monitor' = "Exclusive"
    /\ ctx' = SetTop([Top EXCEPT !.pc = IF head = NULL THEN "pop_clrex" ELSE "pop_next",
                                 !.head = head, !.next = NULL])
    /\ Emit(NoEv)
    /\ UNCHANGED << layout, meter, bufs, grown, head, next, data, live, handles, abs,
                    registered, leaked, fate, calls, frees >>

\* mutant: after reading the head Node's link, pop clears the link field
pop_next_arch_clears ==
    /\ Top.pc = "pop_next"
    /\ WriteNext(Top.head, NULL)
    /\ ctx' = SetTop([Top EXCEPT !.pc = "pop_strex", !.next = next[Top.head]])
    /\ Emit(NoEv)
    /\ UNCHANGED << layout, meter, bufs, grown, head, live, handles, monitor, abs,
                    registered, leaked, fate, calls, frees >>

\* let next = (*head).next
pop_next_arch ==
    /\ Top.pc = "pop_next"
    /\ ctx' = SetTop([Top EXCEPT !.pc = "pop_strex", !.next = next[Top.head]])
    /\ Emit(NoEv)
    /\ UNCHANGED << layout, meter, bufs, grown, head, next, data, live, handles, monitor, abs,
                    registered, leaked, fate, calls, frees >>

\* mutant: the store succeeds whatever the state of the monitor
pop_strex_blind ==
    /\ Top.pc = "pop_strex"
    /\ monitor' = "Open"
    /\ PopSwapped
    /\ UNCHANGED << layout, meter, bufs, grown, next, data, live, registered, leaked, fate, calls, frees >>

\* mutant: the store is a compare-and-swap by value, whatever the monitor
pop_strex_by_value ==
    /\ Top.pc = "pop_strex"
    /\ monitor' = "Open"
    /\ \/ head = Top.head /\ PopSwapped /\ UNCHANGED meter
       \/ /\ head # Top.head
          /\ ctx' = SetTop([Failed(Top) EXCEPT !.pc = "pop", !.head = NULL, !.next = NULL])
          /\ Emit(NoEv)
          /\ UNCHANGED << head, abs, handles, meter >>
    /\ UNCHANGED << layout, bufs, grown, next, data, live, registered, leaked, fate,
                    calls, frees >>

\* arch::strex(next, self.head.get()): stores iff the monitor is still
\* Exclusive; either way the monitor is Open afterwards
pop_strex ==
    /\ Top.pc = "pop_strex"
    /\ monitor' = "Open"
    /\ \/ monitor = "Exclusive" /\ PopSwapped /\ UNCHANGED meter
       \/ /\ monitor = "Open" \/ meter.spurious # 0
          /\ meter' = IF monitor = "Open" THEN meter
                      ELSE [meter EXCEPT !.spurious = Spend(@)]
          /\ ctx' = SetTop([Failed(Top) EXCEPT !.pc = "pop", !.head = NULL, !.next = NULL])
          /\ Emit(NoEv)
          /\ UNCHANGED << head, abs, handles >>
    /\ UNCHANGED << layout, bufs, grown, next, data, live, registered, leaked, fate, calls, frees >>

\* mutant: the empty path returns None without clearing the monitor
pop_clrex_missing ==
    /\ Top.pc = "pop_clrex"
    /\ monitor' = monitor
    /\ AllocReturn(NULL)
    /\ UNCHANGED << layout, meter, bufs, grown, head, next, data, live, abs, registered,
                    leaked, fate, calls, frees >>

\* arch::clrex(); break None
pop_clrex ==
    /\ Top.pc = "pop_clrex"
    /\ monitor' = "Open"
    /\ AllocReturn(NULL)
    /\ UNCHANGED << layout, meter, bufs, grown, head, next, data, live, abs, registered, leaked, fate, calls, frees >>

\* -------------------------------------------------- arch backend: push
\* let head = arch::ldrex(self.head.get())        State: Exclusive
push_ldrex ==
    /\ Top.pc = "push"
    /\ monitor' = "Exclusive"
    /\ ctx' = SetTop([Top EXCEPT !.pc = "push_write", !.head = head])
    /\ Emit(NoEv)
    /\ UNCHANGED << layout, meter, bufs, grown, head, next, data, live, handles, abs,
                    registered, leaked, fate, calls, frees >>

\* mutant: the pushed Node's link is cleared instead of set to the head read
push_write_arch_null ==
    /\ Top.pc = "push_write"
    /\ WriteNext(Top.node, NULL)
    /\ ctx' = SetTop([Top EXCEPT !.pc = "push_strex"])
    /\ Emit(NoEv)
    /\ UNCHANGED << layout, meter, bufs, grown, head, live, handles, monitor, abs,
                    registered, leaked, fate, calls, frees >>

\* new_head.as_mut().next = head
push_write_arch ==
    /\ Top.pc = "push_write"
    /\ WriteNext(Top.node, Top.head)
    /\ ctx' = SetTop([Top EXCEPT !.pc = "push_strex"])
    /\ Emit(NoEv)
    /\ UNCHANGED << layout, meter, bufs, grown, head, live, handles, monitor, abs,
                    registered, leaked, fate, calls, frees >>

\* arch::strex(new_head, self.head.get())
push_strex ==
    /\ Top.pc = "push_strex"
    /\ monitor' = "Open"
    /\ \/ monitor = "Exclusive" /\ PushSwapped /\ UNCHANGED meter
       \/ /\ monitor = "Open" \/ meter.spurious # 0
          /\ meter' = IF monitor = "Open" THEN meter
                      ELSE [meter EXCEPT !.spurious = Spend(@)]
          /\ ctx' = SetTop([Failed(Top) EXCEPT !.pc = "push", !.head = NULL])
          /\ Emit(NoEv)
          /\ UNCHANGED << head, abs, registered >>
    /\ UNCHANGED << layout, bufs, grown, next, data, live, handles, leaked, fate, calls, frees >>

\* ------------------------------------------------------- specifications
\* mutant: Pool::new leaves head pointing into the first buffer
FreshGarbageHead ==
    /\ layout \in Layouts
    /\ grown = {}
    /\ head = Base + NodeAlign
    /\ next = [s \in Slots |-> NULL]
    /\ data = [s \in Slots |-> NULL]
    /\ live = {}
    /\ handles = NoHandles
    /\ ctx = << Idle >>
    /\ monitor = "Open"
    /\ abs = << >>
    /\ registered = {}
    /\ leaked = {}
    /\ fate = {}
    /\ ev = NoEv

\* Pool::new(): an empty pool; the static buffers hold zero bytes
Fresh ==
    /\ layout \in Layouts
    /\ grown = {}
    /\ head = NULL
    /\ next = [s \in Slots |-> NULL]
    /\ data = [s \in Slots |-> NULL]
    /\ live = {}
    /\ handles = NoHandles
    /\ ctx = << Idle >>
    /\ monitor = "Open"
    /\ abs = << >>
    /\ registered = {}
    /\ leaked = {}
    /\ fate = {}
    /\ ev = NoEv

\* the pool and its first buffer, any number of calls
Init ==
    /\ Fresh
    /\ bufs = { FirstBuf(layout) }
    /\ calls = -1
    /\ frees = -1
    /\ meter = Unmetered
    /\ scen = ScenOff

\* the pool and both buffers, following the LIFO scenario
InitSeq ==
    /\ Fresh
    /\ bufs = PoolBufs(layout)
    /\ calls = -1
    /\ frees = -1
    /\ meter = Unmetered
    /\ scen = NoScen

\* the pool and both buffers, with a bounded number of calls
InitGeneric ==
    /\ Fresh
    /\ bufs = PoolBufs(layout)
    /\ calls = MaxCalls
    /\ frees = -1
    /\ meter = Unmetered
    /\ scen = ScenOff

\* an empty pool and one static buffer of any base address and length, with
\* a bounded number of free calls
InitGrow ==
    /\ Fresh
    /\ \E p \in Base..(Base + NodeAlign - 1), len \in 0..MaxLen :
          bufs = { [p |-> p, len |-> len] }
    /\ calls = -1
    /\ frees = MaxFrees
    /\ meter = Unmetered
    /\ scen = ScenOff

\* the first buffer and, behind it, a region of any alignment that holds
\* at most one Node
InitSmall ==
    /\ Fresh
    /\ \E p \in SecondBuf(layout).p..(SecondBuf(layout).p + NodeAlign - 1),
          len \in 0..(NodeSize(layout) + NodeAlign - 1) :
          bufs = { FirstBuf(layout), [p |-> p, len |-> len] }
    /\ calls = -1
    /\ frees = -1
    /\ meter = Unmetered
    /\ scen = ScenOff

\* the pool and its first buffer, with bounded numbers of calls, exceptions
\* and spurious swap failures
InitLive ==
    /\ Fresh
    /\ bufs = { FirstBuf(layout) }
    /\ calls = MaxCalls - 2
    /\ frees = -1
    /\ meter = [Unmetered EXCEPT !.preempt = MaxPreempts, !.spurious = MaxSpurious,
                                 !.count = TRUE]
    /\ scen = ScenOff

\* the pool and its first buffer, any number of calls, counting the failed
\* swap attempts of the main context's call
InitRetry ==
    /\ Fresh
    /\ bufs = { FirstBuf(layout) }
    /\ calls = -1
    /\ frees = -1
    /\ meter = [Unmetered EXCEPT !.count = TRUE]
    /\ scen = ScenOff

\* the pool and its first buffer, whose values are read and written
InitValue ==
    /\ Fresh
    /\ bufs = { FirstBuf(layout) }
    /\ calls = -1
    /\ frees = -1
    /\ meter = Unmetered
    /\ scen = ScenOff

\* a singleton pool (pool!) and both buffers, any number of calls
InitSingleton ==
    /\ Fresh
    /\ bufs = PoolBufs(layout)
    /\ calls = -1
    /\ frees = -1
    /\ meter = Unmetered
    /\ scen = ScenOff

\* the pool and both buffers, a bounded number of calls, recording the swaps
\* of head that preempted calls have missed
InitPush ==
    /\ Fresh
    /\ bufs = PoolBufs(layout)
    /\ calls = MaxCalls + 1
    /\ frees = -1
    /\ meter = [Unmetered EXCEPT !.track = TRUE]
    /\ scen = ScenOff

\* the pool and its first buffer, with a bounded number of calls
InitFrame ==
    /\ Fresh
    /\ bufs = { FirstBuf(layout) }
    /\ calls = MaxCalls
    /\ frees = -1
    /\ meter = Unmetered
    /\ scen = ScenOff

GenericSteps == pop_load \/ pop_next \/ pop_cas \/ push_load \/ push_write \/ push_cas

ArchSteps ==
    \/ pop_ldrex \/ pop_next_arch \/ pop_strex \/ pop_clrex
    \/ push_ldrex \/ push_write_arch \/ push_strex

\* the generic backend without preemption
NextSeq ==
    alloc \/ CallFree \/ CallGrow \/ CallInit \/ CallDrop \/ CallForget \/ GenericSteps

SpecSeq == InitSeq /\ [][NextSeq]_vars

\* the singleton pool without preemption: handles are singleton Boxes
NextSingleton ==
    \/ alloc \/ CallGrow \/ CallInitSingleton \/ CallDropSingleton \/ CallForget
    \/ GenericSteps

SpecSingleton == InitSingleton /\ [][NextSingleton]_vars

\* the generic backend without preemption, with writes through the handles
NextValue == alloc \/ CallFree \/ CallGrow \/ CallInit \/ CallWrite \/ GenericSteps

SpecValue == InitValue /\ [][NextValue]_vars

\* growth of one region of any placement, then allocs and a free
NextGrow == alloc \/ CallFree \/ CallGrow \/ GenericSteps

SpecGrow == InitGrow /\ [][NextGrow]_vars

\* growth with a small region, before or after the first buffer, among
\* allocs and frees
NextSmall == alloc \/ CallFree \/ CallGrow \/ GenericSteps

SpecSmall == InitSmall /\ [][NextSmall]_vars

\* the generic backend under preemption
NextGeneric ==
    alloc \/ CallFree \/ CallGrow \/ CallInitOne \/ GenericSteps \/ Preempt \/ Return

SpecGeneric == InitGeneric /\ [][NextGeneric]_vars

\* the generic backend when exceptions are taken outside pop only (pop runs
\* with exceptions masked, or only push is called from preemptible code)
NextPush == alloc \/ CallFree \/ CallGrow \/ GenericSteps \/ PreemptPush \/ Return

SpecPush == InitPush /\ [][NextPush]_vars

\* the generic backend under finitely many exceptions and spurious failures:
\* the running context executes its next instruction, and a handler that
\* has finished returns
NextLive ==
    alloc \/ CallFree \/ CallGrow \/ CallInitOne \/ GenericSteps \/ Preempt \/ Return

SpecLive == InitLive /\ [][NextLive]_vars /\ WF_vars(GenericSteps) /\ WF_vars(Return)

\* the arch backend under preemption, counting failed swap attempts
NextRetry == alloc \/ CallFree \/ CallGrow \/ CallInitOne \/ ArchSteps \/ Preempt \/ Return

SpecRetry == InitRetry /\ [][NextRetry]_vars

\* the arch backend under preemption, a bounded number of calls
NextFrame == alloc \/ CallFree \/ CallGrow \/ CallInitOne \/ ArchSteps \/ Preempt \/ Return

SpecFrame == InitFrame /\ [][NextFrame]_vars

\* the arch backend under preemption
Next == alloc \/ CallFree \/ CallGrow \/ CallInitOne \/ ArchSteps \/ Preempt \/ Return

Spec == Init /\ [][Next]_vars

\* ------------------------------------------------------------ properties
\* the free list is a finite chain without a repeated Node
Acyclic == NoRepeat(Chain)

\* no Node is both in the free list and owned by a handle
NoDoubleIssue == FreeNodes \cap Owned = {}

\* no call is in progress in any context
Quiescent == \A i \in 1..Len(ctx) : ctx[i].pc = "idle"

\* C1: with the arch backend, under preemption by nested handlers that run
\* alloc, free, grow and init on the same pool, the free list is always a
\* finite chain without a repeated Node and no Node is both in the free list
\* and owned by a handle.
C1_ArchFreeListSound == Acyclic /\ NoDoubleIssue

\* the ABA set-up under two nested handlers: the main context has read head
\* and its next, a handler has popped both Nodes and is pushing the first
\* back, and a second handler is in the middle of its own pop
C1_Witness ==
    /\ Len(ctx) = 3
    /\ ctx[1].pc = "pop_strex"
    /\ ctx[1].next \in Owned
    /\ ctx[2].op = "free" /\ ctx[2].pc = "push_strex" /\ ctx[2].node = ctx[1].head
    /\ ctx[3].op = "alloc"

\* C2: the same property of the generic backend, whose compare-exchange
\* swaps whenever head has the observed value.
C2_GenericFreeListSound == Acyclic /\ NoDoubleIssue

\* C3: with compare-and-swap by value, a pop that has read head = A and
\* A.next = B, and finds head = A again although A.next is no longer B and B
\* is owned by a handle, can complete its swap, which sets head to B.
C3_AbaSwapSucceeds ==
    ( /\ Top.pc = "pop_cas"
      /\ head = Top.head
      /\ next[head] # Top.next
      /\ Top.next \in Owned )
    => ENABLED ( pop_cas /\ head' = Top.next /\ ev'.node = Top.head )

\* the resumed pop has returned A and head is B, which a handle owns, while
\* A, pushed back by the handler, links to a third Node C
C3_Witness ==
    /\ Len(ctx) = 1
    /\ ev.op = "alloc" /\ ev.node # NULL
    /\ head # NULL /\ head \in Owned
    /\ handles[ev.node].Uninit = 1
    /\ next[ev.node] \notin {NULL, head, ev.node}

\* a swap of head by the running context's pop / push
PopSwap == head' # head /\ Top.op = "alloc"

PushSwap == head' # head /\ Top.op \in {"free", "grow"}

\* C4: with the arch backend every execution is a sequential execution of
\* stack operations taking effect at the successful swaps: the free list is
\* always the sequential stack, a pop removes and returns its top, a push
\* puts its Node on top, and an alloc that will return None read an empty
\* stack.
C4_Linearizable ==
    /\ [](Chain = abs)
    /\ [][ /\ PopSwap => ( /\ abs # << >>
                           /\ ev'.op = "alloc" /\ ev'.node = Head(abs)
                           /\ abs' = Tail(abs) )
           /\ PushSwap => ( /\ abs' = << Top.node >> \o abs
                            /\ Chain' = << Top.node >> \o Chain )
           /\ (Top.pc = "pop" /\ ctx'[Len(ctx)].pc = "pop_clrex") => abs = << >>
         ]_vars

\* a handler has popped the Node the preempted pop had read as head; the
\* preempted pop has not swapped yet
C4_Witness ==
    /\ Len(ctx) = 2
    /\ ctx[1].pc = "pop_strex"
    /\ ev.op = "alloc" /\ ev.node = ctx[1].head
    /\ head = ctx[1].next
    /\ head # NULL

\* C5: when no call is in progress and no handle has been dropped, the
\* Nodes grow has registered are partitioned into the free list, where each
\* occurs once, and the Nodes owned by exactly one handle.
C5_OwnershipPartition ==
    (Quiescent /\ leaked = {}) =>
        /\ NoRepeat(Chain)
        /\ FreeNodes \cap Owned = {}
        /\ FreeNodes \cup Owned = registered
        /\ \A s \in Owned : HandleCount(s) = 1

\* after grow, alloc, init and free calls: one Node initialized, one claimed
\* and uninitialized, one back in the free list
C5_Witness ==
    /\ Quiescent /\ leaked = {}
    /\ Cardinality(registered) = 3
    /\ ev.op = "free"
    /\ \E s, t \in Slots : handles[s].Init = 1 /\ handles[t].Uninit = 1
    /\ Len(Chain) = 1

\* C6: an alloc that reads a null head returns None in that very step and
\* changes neither head nor any Node nor any handle; on a pool that was
\* never grown every alloc returns None.
C6_EmptyAllocReturnsNone ==
    /\ [][ (Top.pc = "pop" /\ head = NULL) =>
              ( /\ ev'.op = "alloc" /\ ev'.node = NULL
                /\ ctx'[Len(ctx)].pc = "idle"
                /\ UNCHANGED << head, next, data, live, handles >> ) ]_vars
    /\ []( (grown = {} /\ ev.op = "alloc") => ev.node = NULL )

\* alloc has returned None on a grown pool all of whose Nodes are claimed
C6_Witness ==
    /\ ev.op = "alloc" /\ ev.node = NULL
    /\ Cardinality(registered) = 3
    /\ Owned = registered

\* the claim's closed form of the number of Nodes a region yields
Offset(p) == (NodeAlign - (p % NodeAlign)) % NodeAlign

Capacity(b) ==
    IF Offset(b.p) >= b.len THEN 0 ELSE (b.len - Offset(b.p)) \div NodeSize(layout)

\* C7: after one grow of an empty pool with a region of len bytes at p, the
\* pool holds k = floor((len - offset) / size) Nodes (0 when offset >= len):
\* alloc returns None only when k Nodes are claimed, never more than k are
\* claimed, and free and claimed Nodes add up to k.
C7_GrowCapacity ==
    \A b \in grown :
        (\A i \in 1..Len(ctx) : ctx[i].op # "grow") =>
            /\ Cardinality(registered) = Capacity(b)
            /\ Cardinality(Owned) <= Capacity(b)
            /\ (ev.op = "alloc" /\ ev.node = NULL) => Cardinality(Owned) = Capacity(b)
            /\ Quiescent => Cardinality(Owned) + Len(Chain) = Capacity(b)

\* behind alignment padding: every block was claimed, one was freed, alloc
\* succeeded again and the alloc after it returned None
C7_Witness ==
    /\ frees = 0
    /\ ev.op = "alloc" /\ ev.node = NULL
    /\ Cardinality(Owned) >= 3
    /\ \E b \in grown : Offset(b.p) > 0 /\ Cardinality(Owned) = Capacity(b)

\* C8: without preemption, a successful alloc returns the Node pushed most
\* recently among those in the free list; after alloc -> a, alloc -> b,
\* free b, free a, the next two allocs return a and then b.
C8_Lifo ==
    /\ [][ (Top.pc = "pop_cas" /\ ev'.op = "alloc" /\ ev'.node # NULL) =>
              (abs # << >> /\ ev'.node = Head(abs)) ]_vars
    /\ [](scen.ph >= 5 => scen.x = scen.a)
    /\ [](scen.ph = 6 => scen.y = scen.b)

\* the whole scenario has run
C8_Witness == scen.ph = 6 /\ scen.a # scen.b

\* C9: a free of an Init handle has run the destructor once, and before the
\* Node is in the free list; a free of an Uninit handle runs none; when
\* free returns the Node is in the free list.
C9_FreeRunsDestructorOnce ==
    /\ ev.op = "free" =>
          /\ ev.node \in FreeNodes
          /\ ev.node \notin live
          /\ ev.dtors = IF ev.st = "Init" THEN 1 ELSE 0
    /\ \A i \in 1..Len(ctx) :
          ctx[i].op = "free" =>
              /\ ctx[i].node \notin FreeNodes
              /\ ctx[i].node \notin live
              /\ ctx[i].dtors = IF ctx[i].st = "Init" THEN 1 ELSE 0

\* free of an Init handle has returned
C9_Witness ==
    /\ ev.op = "free" /\ ev.st = "Init" /\ ev.dtors = 1
    /\ head = ev.node

\* C10 as stated: once an Init Box of the generic pool has been dropped, its
\* value has been destroyed and its Node is back in the free list.
C10_DropReleases ==
    (ev.op = "drop" /\ ev.st = "Init") => (ev.node \notin live /\ ev.node \in FreeNodes)

\* C10 amended: dropping an Init Box of the generic pool runs nothing: the
\* value is not destroyed, and the Node is never again in the free list nor
\* handed out by alloc.
C10_DropLeaks ==
    /\ (ev.op = "drop" /\ ev.st = "Init") => (ev.node \in live /\ ev.node \in leaked)
    /\ \A s \in leaked :
          /\ s \notin FreeNodes
          /\ s \notin Owned
          /\ \A i \in 1..Len(ctx) : ctx[i].node # s /\ ctx[i].head # s

\* alloc has returned None while a dropped Init Box's Node sits unused
C10_Witness ==
    /\ ev.op = "alloc" /\ ev.node = NULL
    /\ leaked \cap live # {}

\* the Nodes whose Init handle was dropped or forgotten
LostInit == { r.node : r \in { q \in fate : q.st = "Init" } }

\* C11: in the generic pool the destructor has run for no value whose Init
\* handle was dropped or forgotten, the Node of such a handle is not in the
\* free list, and the values still constructed (the COUNT of the test) are
\* those of the outstanding, dropped and forgotten Init handles: a
\* destructor has run for each freed Init handle only.  With three Init
\* handles dropped, forgotten and freed, one destructor has run.
C11_DropAndForgetLeak ==
    /\ live = { s \in Slots : handles[s].Init > 0 } \cup LostInit
    /\ \A r \in fate : r.node \notin FreeNodes /\ r.node \notin Owned
    /\ (ev.op \in {"drop", "forget"} /\ ev.st = "Init") => ev.node \in live
    /\ ( /\ Cardinality(registered) = 3
         /\ \E x, y \in fate : /\ x.how = "drop" /\ x.st = "Init"
                               /\ y.how = "forget" /\ y.st = "Init"
         /\ ev.op = "free" /\ ev.st = "Init" )
       => (Cardinality(live) = 3 - 1 /\ ev.dtors = 1 /\ Len(Chain) = 1)

\* the destructors test: three init'ed handles, one dropped, one forgotten,
\* the third freed
C11_Witness ==
    /\ Cardinality(registered) = 3
    /\ \E x, y \in fate : /\ x.how = "drop" /\ x.st = "Init"
                          /\ y.how = "forget" /\ y.st = "Init"
    /\ ev.op = "free" /\ ev.st = "Init" /\ ev.dtors = 1
    /\ Cardinality(live) = 2

\* the Nodes of forgotten handles
Forgotten == { r.node : r \in { q \in fate : q.how = "forget" } }

\* C12: in the singleton pool the drop of an Init handle runs the
\* destructor once, before the Node is pushed, and when it returns the Node
\* is the head of the pool's free list, so that alloc, which returns None
\* only when it reads a null head, succeeds; a forgotten Init handle keeps
\* its value constructed and its Node out of the free list.
C12_SingletonDropReleases ==
    /\ []( (ev.op = "drop" /\ ev.st = "Init") =>
              (ev.dtors = 1 /\ ev.node \notin live /\ head = ev.node) )
    /\ []( \A i \in 1..Len(ctx) :
              (ctx[i].op = "drop" /\ ctx[i].st = "Init") =>
                  (ctx[i].dtors = 1 /\ ctx[i].node \notin live
                   /\ ctx[i].node \notin FreeNodes) )
    /\ [][ (ev'.op = "alloc" /\ ev'.node = NULL) => head = NULL ]_vars
    /\ []( \A r \in fate :
              /\ r.node \notin FreeNodes
              /\ r.st = "Init" => r.node \in live )

\* the sanity test: the pool was exhausted while the Init handle was alive
\* (every other Node is owned or forgotten), and its drop has returned
C12_Witness ==
    /\ ev.op = "drop" /\ ev.st = "Init"
    /\ Cardinality(registered) = 3
    /\ Chain = << ev.node >>
    /\ Forgotten \cap live # {}

\* C13: in the singleton pool the drop of an Uninit handle runs no
\* destructor and when it returns the Node is in the free list, once, as
\* its head; no Node is lost: when no call is in progress every registered
\* Node is free, owned by one handle, or forgotten.
C13_SingletonDropUninit ==
    /\ (ev.op = "drop" /\ ev.st = "Uninit") =>
          (ev.dtors = 0 /\ head = ev.node /\ NoRepeat(Chain) /\ ev.node \notin Owned)
    /\ \A i \in 1..Len(ctx) :
          (ctx[i].op = "drop" /\ ctx[i].st = "Uninit") =>
              (ctx[i].dtors = 0 /\ ctx[i].node \notin FreeNodes)
    /\ Quiescent =>
          /\ FreeNodes \cup Owned \cup Forgotten = registered
          /\ FreeNodes \cap Owned = {}
          /\ \A s \in Owned : HandleCount(s) = 1

\* the drop of an Uninit handle has returned on a pool that was exhausted:
\* its Node is the one free Node, the others are owned by Init handles
C13_Witness ==
    /\ ev.op = "drop" /\ ev.st = "Uninit"
    /\ Cardinality(registered) = 3
    /\ Chain = << ev.node >>
    /\ \A s \in registered \ {ev.node} : handles[s].Init = 1

\* the region cannot hold one whole Node after the alignment offset
Undersized(b) == Offset(b.p) >= b.len \/ b.len - Offset(b.p) < NodeSize(layout)

\* C14: a grow with a region that cannot hold one whole Node after the
\* alignment offset returns in its first step, pushes nothing and leaves
\* head, every Node, the free list and the handles unchanged; no Node of
\* such a region is ever registered.
C14_UndersizedGrowIsNoOp ==
    /\ [][ \A b \in grown' \ grown :
              Undersized(b) =>
                  /\ ev'.op = "grow"
                  /\ ctx'[Len(ctx)].pc = "idle"
                  /\ Chain' = Chain
                  /\ UNCHANGED << head, next, data, registered, handles, live >> ]_vars
    /\ []( \A b \in grown :
              Undersized(b) => \A s \in registered : s < b.p \/ s >= b.p + b.len )

\* an unaligned region with room left after the offset, but not for a whole
\* Node, was grown after Nodes of the first buffer had been claimed
C14_Witness ==
    /\ ev.op = "grow"
    /\ Owned # {} /\ Len(Chain) >= 1
    /\ \E b \in grown : Undersized(b) /\ Offset(b.p) > 0 /\ b.len > Offset(b.p)

\* C15: for one-byte elements and four-byte pointers the two-field Node has
\* size 8 and the overlapping one size 4, both with alignment 4; once a grow
\* of an empty pool with a 31-byte region at any base address has returned,
\* 3 Nodes (two fields) or 7 Nodes (overlapping) are registered, alloc
\* returns None only with all of them claimed, and free and claimed Nodes
\* add up to that number.
C15_ThirtyOneBytes ==
    /\ NodeAlign = 4 /\ NodeSize("struct") = 8 /\ NodeSize("union") = 4
    /\ \A b \in grown :
          (b.len = 31 /\ \A i \in 1..Len(ctx) : ctx[i].op # "grow") =>
              LET k == IF layout = "struct" THEN 3 ELSE 7 IN
              /\ Cardinality(registered) = k
              /\ Cardinality(Owned) <= k
              /\ (ev.op = "alloc" /\ ev.node = NULL) => Cardinality(Owned) = k
              /\ Quiescent => Cardinality(Owned) + Len(Chain) = k

\* the 31-byte region behind three bytes of padding, overlapping layout:
\* seven allocs have succeeded and the eighth has returned None
C15_Witness ==
    /\ layout = "union"
    /\ \E b \in grown : b.len = 31 /\ b.p % NodeAlign = 1
    /\ ev.op = "alloc" /\ ev.node = NULL
    /\ Cardinality(Owned) = 7

\* context i has a call in progress
Pending(i) == Len(ctx) >= i /\ ctx[i].pc # "idle"

\* the running context makes a swap attempt in this step
Attempt == Top.pc \in {"pop_cas", "push_cas"} /\ Len(ctx') = Len(ctx)

\* the attempt swaps head: the pop returns its Node, the push has linked its own
Completed ==
    \/ Top.pc = "pop_cas" /\ head' = Top.next /\ ev'.op = "alloc" /\ ev'.node = Top.head
    \/ Top.pc = "push_cas" /\ head' = Top.node

\* C16 as stated: no call waits on another context, every call returns when
\* exceptions and spurious failures are finitely many, and a swap attempt of
\* a call that was not preempted since it read head completes the call.
C16_AsStated ==
    /\ [](Top.pc # "idle" => ENABLED GenericSteps)
    /\ \A i \in 1..(MaxDepth + 1) : Pending(i) ~> ~Pending(i)
    /\ [][ (Attempt /\ ~Top.pre) => Completed ]_vars

\* C16 amended: as above, but a swap attempt of a call that was not
\* preempted since it read head completes unless the compare-exchange fails
\* spuriously.
C16_NonBlocking ==
    /\ [](Top.pc # "idle" => ENABLED GenericSteps)
    /\ \A i \in 1..(MaxDepth + 1) : Pending(i) ~> ~Pending(i)
    /\ [][ (Attempt /\ ~Top.pre) =>
              (Completed \/ meter'.spurious = meter.spurious - 1) ]_vars
    /\ [][ (Attempt /\ ~Top.pre) => head = Top.head ]_vars

\* the main context's pop has failed twice, once after a handler changed
\* head and once spuriously, has read head again and is about to swap
C16_Witness ==
    /\ Len(ctx) = 1
    /\ Top.pc = "pop_cas" /\ Top.fails >= 2 /\ ~Top.pre
    /\ meter.spurious = 0 /\ meter.preempt < MaxPreempts

\* the running context executes its store-conditional in this step
StoreAttempt == Top.pc \in {"pop_strex", "push_strex"} /\ Len(ctx') = Len(ctx)

\* C17: a call of the main context can be preempted wherever it is between
\* its load-link and its store-conditional, the handler can return, and the
\* store-conditional of a call preempted since its load-link fails: head is
\* unchanged, the call is back at its load-link and its count of failed
\* attempts has grown (up to the largest count told apart).  So the
\* iteration can repeat without bound and the call need not return.
C17_NotWaitFree ==
    /\ []( (Len(ctx) = 1 /\ Top.pc \in AfterRead) => ENABLED Preempt )
    /\ []( (Len(ctx) > 1 /\ Top.pc = "idle") => ENABLED Return )
    /\ [][ (StoreAttempt /\ Top.pre) =>
              /\ head' = head
              /\ ctx'[Len(ctx)].op = Top.op
              /\ ctx'[Len(ctx)].pc = (IF Top.pc = "pop_strex" THEN "pop" ELSE "push")
              /\ Len(ctx) = 1 =>
                    ctx'[1].fails = (IF Top.fails <= MaxFails THEN Top.fails + 1
                                     ELSE Top.fails) ]_vars

\* an alloc of the main context has failed more than MaxFails times and has
\* been preempted again before its next store-conditional
C17_Witness ==
    /\ Len(ctx) = 1
    /\ Top.op = "alloc" /\ Top.pc = "pop_strex"
    /\ Top.fails > MaxFails
    /\ Top.pre

\* the Node addresses of a region: whole Nodes from its first aligned address
Carved(b) ==
    { a \in Slots : /\ a >= b.p + Offset(b.p)
                    /\ a + NodeSize(layout) <= b.p + b.len
                    /\ (a - (b.p + Offset(b.p))) % NodeSize(layout) = 0 }

\* C18: with the arch backend, a grow preempted between and inside its
\* pushes by handlers that alloc and free pushes each Node of the region
\* once: each of its swaps registers a Node not registered before, only
\* Nodes of the region are registered, and when grow returns all of them
\* are, each either in the free list, once, or owned by one handle.
C18_GrowUnderPreemption ==
    /\ [][ (Top.op = "grow" /\ head' # head) =>
              /\ Top.node \notin registered
              /\ registered' = registered \cup {Top.node}
              /\ head' = Top.node ]_vars
    /\ []( \A b \in grown : registered \subseteq Carved(b) )
    /\ []( ev.op = "grow" =>
              \A b \in grown :
                  /\ registered = Carved(b)
                  /\ NoRepeat(Chain)
                  /\ \A s \in registered :
                        /\ (s \in FreeNodes) # (s \in Owned)
                        /\ HandleCount(s) <= 1 )

\* grow in the main context has returned; a handler that preempted it
\* between its two pushes claimed and initialized the first Node, so the
\* free list holds the second Node only
C18_Witness ==
    /\ Len(ctx) = 1
    /\ ev.op = "grow"
    /\ Cardinality(registered) = 2
    /\ \E s \in registered : handles[s].Init = 1 /\ s < head
    /\ head # NULL /\ next[head] = NULL

\* what a read through the handle of Node s yields after the step
ReadAfter(s) == IF layout = "union" THEN next'[s] ELSE data'[s]

\* C19: init(v) turns the Uninit handle of a Node into an Init handle of
\* the same Node and leaves head and the free list unchanged; a read through
\* the handle then yields v; an assignment through the handle makes reads
\* yield the assigned value; and no other step changes what a handle that
\* stays Init reads.
C19_InitRoundTrip ==
    /\ [][ ev'.op = "init" =>
              /\ handles[ev'.node].Uninit = 1
              /\ handles'[ev'.node] = [Uninit |-> 0, Init |-> 1]
              /\ \A s \in Slots \ {ev'.node} : handles'[s] = handles[s]
              /\ head' = head /\ Chain' = Chain
              /\ ReadAfter(ev'.node) = ev'.val ]_vars
    /\ [][ ev'.op = "write" => ReadAfter(ev'.node) = ev'.val ]_vars
    /\ [][ \A s \in Slots :
              ( /\ handles[s].Init > 0 /\ handles'[s].Init > 0
                /\ ~(ev'.op = "write" /\ ev'.node = s) )
              => ReadAfter(s) = ReadData(s) ]_vars

\* two Init handles read different values, the last step having assigned a
\* new value through one of them, in the overlapping layout
C19_Witness ==
    /\ layout = "union"
    /\ ev.op = "write"
    /\ \E s \in Slots : /\ s # ev.node
                        /\ handles[s].Init = 1
                        /\ ReadData(s) # ReadData(ev.node)
    /\ ReadData(ev.node) = ev.val

\* C20: with the arch backend the monitor is Open whenever the running
\* context is outside pop and push or about to execute a load-link, in
\* particular when pop or push has returned, also with None; and a
\* store-conditional succeeds only on the reservation of its own call's last
\* load-link, no exception having been taken since.
C20_MonitorHygiene ==
    /\ []( Top.pc \in {"idle", "pop", "push"} => monitor = "Open" )
    /\ [][ ( /\ Len(ctx') = Len(ctx)
             /\ Top.pc \in {"pop_strex", "pop_clrex", "push_strex"}
             /\ ctx'[Len(ctx)].pc \in {"idle", "push"} )
           => monitor' = "Open" ]_vars
    /\ [][ (StoreAttempt /\ head' # head) =>
              (monitor = "Exclusive" /\ ~Top.pre) ]_vars

\* a handler's alloc has returned None on a grown, exhausted pool while the
\* main context is between its load-link and its store-conditional
C20_Witness ==
    /\ Len(ctx) = 2
    /\ ev.op = "alloc" /\ ev.node = NULL
    /\ registered # {} /\ head = NULL
    /\ ctx[1].pc \in {"push_write", "push_strex"}
    /\ monitor = "Open"

\* C21: no pool operation of one context reads or writes a field of a Node
\* that a handle of another context owns; in particular pop never reads the
\* link of a Node that is owned by a handle at the moment of the read.  The
\* Node read is the head the call loaded, which was free at the load, so a
\* handle that owns it at the read was issued by a handler that preempted
\* the call in between.
C21_ExclusiveAccess ==
    [][ pop_next_arch => Top.head \notin Owned ]_vars

\* what the code does guarantee: a link read from an owned Node is never
\* stored, since the store-conditional that follows it finds the monitor Open
C21_StaleReadDiscarded ==
    ( Top.pc = "pop_strex" /\ monitor = "Exclusive" ) =>
        ( Top.head \notin Owned /\ Top.next = next[Top.head] /\ head = Top.head )

\* the Nodes whose handle is Init before and after the step
HeldInit == { s \in Slots : handles[s].Init > 0 /\ handles'[s].Init > 0 }

\* C22: with the arch backend, in both layouts, no step of any context's
\* alloc, free or grow changes the value slot or the link of a Node whose
\* handle is Init, so the value read through the handle stays the same; push
\* writes only the link of the Node it pushes, and pop writes no Node.
C22_LiveValueFrame ==
    /\ [][ \A s \in HeldInit :
              next'[s] = next[s] /\ data'[s] = data[s] /\ ReadAfter(s) = ReadData(s) ]_vars
    /\ [][ push_write_arch =>
              /\ data' = data
              /\ \A s \in Slots \ {Top.node} : next'[s] = next[s] ]_vars
    /\ [][ (pop_ldrex \/ pop_next_arch \/ pop_strex \/ pop_clrex) =>
              (next' = next /\ data' = data) ]_vars

\* union layout: a handle holds its value while a handler, which preempted
\* the main context's pop, has popped the other Node and written its link
\* to push it back
C22_Witness ==
    /\ layout = "union"
    /\ Len(ctx) = 2
    /\ ctx[1].pc \in {"pop_next", "pop_strex"}
    /\ Top.op = "free" /\ Top.pc = "push_strex"
    /\ \E s \in Slots \ {Top.node} :
          handles[s].Init = 1 /\ ReadData(s) \in OneValue

\* the Node a grow in progress is pushing, in any context
Pushing == { ctx[i].node : i \in { j \in 1..Len(ctx) : ctx[j].op = "grow" } }

\* C23: for every base address p and length len, each Node address grow
\* pushes is a multiple of the Node alignment, the Node lies inside
\* [p, p + len), and the Nodes of one grow do not overlap: each address is
\* the previous one plus the Node size.
C23_GrownNodePlacement ==
    /\ []( \A b \in grown : \A n \in Pushing \cup registered :
              /\ n % NodeAlign = 0
              /\ b.p <= n
              /\ n + NodeSize(layout) <= b.p + b.len )
    /\ []( \A m, n \in registered :
              m < n => m + NodeSize(layout) <= n )
    /\ [][ (Top.op = "grow" /\ head' # head) =>
              /\ \A m \in registered : m < Top.node
              /\ registered # {} => Top.node - NodeSize(layout) \in registered ]_vars

\* a region that starts off the alignment and ends inside a Node's worth of
\* bytes: grow has returned after pushing three Nodes or more
C23_Witness ==
    /\ ev.op = "grow"
    /\ Cardinality(registered) >= 3
    /\ \E b \in grown :
          /\ Offset(b.p) > 0
          /\ (b.len - Offset(b.p)) % NodeSize(layout) # 0

\* the Nodes that pending pushes of free calls hold, in any context
InFlight == { ctx[i].node : i \in { j \in 1..Len(ctx) : ctx[j].op = "free" } }

\* C24: with compare-and-swap by value and pops that are not preempted, a
\* push preempted between writing the observed head to its Node's link and
\* its compare-and-swap, during which handlers swapped head and restored it
\* to the same Node, swaps in its Node on top of the current free list; the
\* free list stays a chain without a repeated Node, no Node is both free and
\* owned, and every registered Node is free, owned or held by a pending push.
C24_PushAbaImmune ==
    /\ [][ ( /\ Top.pc = "push_cas" /\ Top.moved = "push_cas" /\ head = Top.head
             /\ Len(ctx') = Len(ctx) /\ head' # head )
           => ( /\ head' = Top.node
                /\ Chain' = << Top.node >> \o Chain
                /\ NoRepeat(Chain')
                /\ FreeNodes' \cap Owned' = {} ) ]_vars
    /\ []( Acyclic /\ NoDoubleIssue )
    /\ []( /\ registered = FreeNodes \cup Owned \cup (InFlight \cap registered)
           /\ InFlight \cap (FreeNodes \cup Owned) = {} )

\* the free in the main context has returned: it was preempted after it
\* wrote its Node's link, the handlers swapped head and left it at the Node
\* the free had read, keeping another Node, and the resumed swap succeeded
C24_Witness ==
    /\ Len(ctx) = 1
    /\ ev.op = "free" /\ ev.moved = "push_cas"
    /\ head = ev.node
    /\ Len(Chain) = 2
    /\ Cardinality(Owned) = 1
    /\ Cardinality(registered) = 3

\* the Nodes that pending pushes hold, in any context
BeingPushed == { ctx[i].node : i \in { j \in 1..Len(ctx) : ctx[j].pc # "idle" /\ ctx[j].op # "alloc" } }

\* C25: the singleton Box's init starts no push and leaves head and the free
\* list as they were; after it the Node is owned by the Init handle alone and
\* is not in the free list; as long as a handle owns a Node, the Node is
\* neither free nor being pushed; the Node goes back through the one push of
\* its handle's drop, which finds it outside the free list and puts it on
\* top, once.
C25_SingletonInitKeepsNode ==
    /\ [][ ev'.op = "init" =>
              /\ head' = head /\ Chain' = Chain /\ ctx' = ctx
              /\ handles[ev'.node] = [Uninit |-> 1, Init |-> 0]
              /\ handles'[ev'.node] = [Uninit |-> 0, Init |-> 1]
              /\ ev'.node \notin FreeNodes' ]_vars
    /\ []( \A s \in Owned :
              HandleCount(s) = 1 /\ s \notin FreeNodes /\ s \notin BeingPushed )
    /\ [][ (Top.op = "drop" /\ head' # head) =>
              /\ Top.node \notin FreeNodes
              /\ Chain' = << Top.node >> \o Chain
              /\ NoRepeat(Chain') ]_vars

\* init has just returned on a pool of three Nodes: the Node is held by its
\* Init handle, with its value, and the other two Nodes make the free list
C25_Witness ==
    /\ ev.op = "init"
    /\ handles[ev.node] = [Uninit |-> 0, Init |-> 1]
    /\ ReadData(ev.node) = ev.val
    /\ head # NULL /\ head # ev.node
    /\ ev.node \notin FreeNodes
    /\ Len(Chain) = 2

====
